---- MODULE Spec2Model ----
(***************************************************************************)
(* Model of examples/safe_robot_test.py: run_safe_robot_test and the two   *)
(* functions it calls, validate_joint_position and                         *)
(* wait_for_move_completion.                                               *)
(*                                                                         *)
(* The run is one sequential thread.  Every action below is one step of it *)
(* that ends at the next call which can block, fail or be interrupted (a   *)
(* transport call, input() or time.sleep()); the outcome of that call is   *)
(* chosen with \E.  The RTDE transport (rtde.RTDE) is an external          *)
(* collaborator: each of its calls may return, raise or be interrupted by  *)
(* Ctrl+C (KeyboardInterrupt).                                             *)
(*                                                                         *)
(* Units: joint positions are in 0.01 rad, joint velocities in 0.001 rad/s *)
(* and elapsed time in whole seconds.                                      *)
(***************************************************************************)
EXTENDS Integers, Sequences, FiniteSets, TLC

(***************************************************************************)
(* Program constants.                                                      *)
(***************************************************************************)
\* MAX_JOINT_MOVEMENT = 0.05 rad, in 0.01 rad
MAX_JOINT_MOVEMENT == 5

\* SMALL_MOVEMENT_OFFSET = 0.03 rad, in 0.01 rad
SMALL_MOVEMENT_OFFSET == 3

\* MOVEMENT_TIMEOUT = 10.0 s, in s
MOVEMENT_TIMEOUT == 10

\* max_retries = 3
max_retries == 3

\* the stillness threshold 0.001 rad/s of wait_for_move_completion, in 0.001 rad/s
StillnessThreshold == 1

\* the number of joints validate_joint_position requires
JointCount == 6

(***************************************************************************)
(* Bounds of the model.                                                    *)
(***************************************************************************)
\* the longest time, in s, one con.receive() inside the polling loop blocks
MaxRecvDelay == 2

\* the count of con.receive() calls saturates here
MaxRecvCount == 3

\* the longest telemetry stream fixed in advance
MaxStream == 5

(***************************************************************************)
(* Inputs: what the user types, what the transport reports.                *)
(***************************************************************************)
Responses == {"YES", "yes", "no"}

\* str.upper() on the responses above
Upper(r) ==
    CASE r = "yes" -> "YES"
      [] r = "no"  -> "NO"
      [] OTHER     -> r

\* messages of the ValueErrors the recipe setup raises, as word sequences
ValueErrorMessages ==
    { <<"An", "input", "parameter", "is", "already", "in", "use">>,
      <<"unknown", "recipe", "field", "type">> }

\* pat in s, for word sequences
Contains(s, pat) ==
    \E i \in 1..(Len(s) - Len(pat) + 1) : SubSeq(s, i, i + Len(pat) - 1) = pat

\* variant: every ValueError is taken for a register conflict
AlreadyInUse_Any(msg) == TRUE

\* "already in use" in str(e)
AlreadyInUse(msg) == Contains(msg, <<"already", "in", "use">>)

\* actual_q of the telemetry samples: well-formed (6 joints) and malformed
PositionSamples ==
    { <<0, -157, 0, -157, 0, 0>>,
      <<0, 0, 0, 0, 0>>,
      <<0, 0, 0, 0, 0, 0, 0>> }

\* actual_qd of the telemetry samples: still, at the threshold, moving, empty
VelocitySamples ==
    { <<0, 0, 0, 0, 0, 0>>,
      <<0, 0, 0, 0, 0, 1>>,
      <<0, -2, 0, 0, 0, 0>>,
      <<>> }

None == [kind |-> "None"]

Sample(q, qd) == [kind |-> "state", actual_q |-> q, actual_qd |-> qd]

Abs(x) == IF x < 0 THEN -x ELSE x

Max(S) == CHOOSE m \in S : \A x \in S : x <= m

Min2(a, b) == IF a < b THEN a ELSE b

(***************************************************************************)
(* validate_joint_position(current_pos, target_pos, max_delta).            *)
(* joint is the 0-based index the message names, -1 when there is none.    *)
(***************************************************************************)
\* variant: a joint whose delta equals max_delta is rejected too
Offending_Inclusive(current_pos, target_pos, max_delta) ==
    { i \in 1..Min2(Len(current_pos), Len(target_pos)) :
        Abs(target_pos[i] - current_pos[i]) >= max_delta }

\* the joints the loop of lines 65-68 would reject
Offending(current_pos, target_pos, max_delta) ==
    { i \in 1..Min2(Len(current_pos), Len(target_pos)) :
        Abs(target_pos[i] - current_pos[i]) > max_delta }

validate_joint_position(current_pos, target_pos, max_delta) ==
    IF Len(current_pos) # JointCount \/ Len(target_pos) # JointCount
    THEN [ok |-> FALSE, msg |-> "Invalid position dimensions", joint |-> -1, delta |-> 0]
    ELSE LET bad == Offending(current_pos, target_pos, max_delta) IN
         IF bad # {}
         THEN LET i == CHOOSE j \in bad : \A k \in bad : j <= k IN
              [ok |-> FALSE, msg |-> "movement too large", joint |-> i - 1,
               delta |-> Abs(target_pos[i] - current_pos[i])]
         ELSE [ok |-> TRUE, msg |-> "Position is safe", joint |-> -1, delta |-> 0]

\* the value of a variable that has not been assigned yet
Unset == "<unset>"

VARIABLES
    pc,                \* the statement the run is at
    response,          \* what the user typed at the prompt
    connected,         \* the transport holds an open connection
    retry_count,       \* retry_count of the recipe setup loop
    setp,              \* the input recipe object: None or its six registers
    state,             \* the run's variable state: the last sample it stored
    current_position,  \* list(state.actual_q) of the reference sample
    target_pos_1,
    target_pos_2,
    move,              \* which movement (1 or 2) is being executed
    elapsed,           \* time.time() - start_time inside wait_for_move_completion
    result,            \* the exit the run took (its last message)
    calls,             \* history: transport calls other than receive, and the grace
                       \* sleep of the retry loop, with their outcomes
    receives,          \* history: number of con.receive() calls (saturating)
    validations,       \* history: validate_joint_position calls and their results
    sent,              \* history: register contents of each con.send(setp)
    waits,             \* history: how each wait_for_move_completion ended
    interrupts,        \* history: where KeyboardInterrupts were delivered
    stream,            \* input: the actual_qd of the samples the transport delivers
                       \* first to the polls of wait_for_move_completion; once they
                       \* are used up (or when there are none) any sample may come
    consumed           \* how many samples of stream the polls have taken

vars == <<pc, response, connected, retry_count, setp, state, current_position, target_pos_1,
          target_pos_2, move, elapsed, result, calls, receives, validations, sent,
          waits, interrupts, stream, consumed>>

telemetry == <<stream, consumed>>

locals == <<response, retry_count, setp, state, current_position, target_pos_1, target_pos_2,
            move, elapsed>>

history == <<receives, validations, sent, waits>>

Init ==
    /\ pc = "prompt"
    /\ response = Unset
    /\ connected = FALSE
    /\ retry_count = 0
    /\ setp = None
    /\ state = None
    /\ current_position = <<>>
    /\ target_pos_1 = <<>>
    /\ target_pos_2 = <<>>
    /\ move = 0
    /\ elapsed = 0
    /\ result = "running"
    /\ calls = <<>>
    /\ receives = 0
    /\ validations = <<>>
    /\ sent = <<>>
    /\ waits = <<>>
    /\ interrupts = <<>>
    /\ stream = <<>>
    /\ consumed = 0

\* one transport call: its name, how it ended, and the message of its ValueError
Call(op, res, msg) == [op |-> op, res |-> res, msg |-> msg]

Logged(op, res) == calls' = Append(calls, Call(op, res, <<>>))

\* where the run is, for the record of interrupts: the statement and the movement
Here == <<pc, move>>

(***************************************************************************)
(* Exits of the try statement of run_safe_robot_test.                      *)
(***************************************************************************)
\* the finally clause: every exit of the try statement enters it
Finally == "pause"

\* variant: a return that leaves the function without running the finally clause
Return_SkipsFinally(why) ==
    /\ pc' = "done"
    /\ result' = why
    /\ interrupts' = interrupts

\* a return statement inside the try statement, after printing why
Return(why) ==
    /\ pc' = Finally
    /\ result' = why
    /\ interrupts' = interrupts

\* variant: the interrupt leaves the function without running the finally clause
Interrupted_SkipsFinally(at) ==
    /\ pc' = "done"
    /\ result' = "Interrupted"
    /\ interrupts' = Append(interrupts, at)

\* except KeyboardInterrupt: the interrupt was delivered at statement at
Interrupted(at) ==
    /\ pc' = Finally
    /\ result' = "Interrupted"
    /\ interrupts' = Append(interrupts, at)

\* except Exception
Failed ==
    /\ pc' = Finally
    /\ result' = "Error"
    /\ interrupts' = interrupts

\* control goes on to statement next
Goto(next) ==
    /\ pc' = next
    /\ result' = result
    /\ interrupts' = interrupts

\* an exception or an interrupt outside the try statement leaves the function
Propagate(why, ints) ==
    /\ pc' = "done"
    /\ result' = why
    /\ interrupts' = ints

\* transport call op raises an Exception, or Ctrl+C arrives while it blocks
Raises(op) ==
    \/ Logged(op, "error") /\ Failed
    \/ Logged(op, "interrupt") /\ Interrupted(Here)

(***************************************************************************)
(* Lines 129-167: confirmation and recipe file, before the try statement.  *)
(***************************************************************************)
\* variant: the return of line 133 is missing, the run goes on whatever was typed
Confirmed_NoReturn(r) == Goto("prepare")

\* if response.upper() != "YES": print("Test cancelled by user"); return
Confirmed(r) ==
    IF Upper(r) # "YES"
    THEN Propagate("UserCancelled", interrupts)
    ELSE Goto("prepare")

\* response = input("Type 'YES' to proceed: ")
Prompt ==
    /\ pc = "prompt"
    /\ \/ \E r \in Responses :
            /\ response' = r
            /\ Confirmed(r)
       \/ response' = response /\ Propagate("UncaughtInterrupt", Append(interrupts, Here))
    /\ UNCHANGED <<connected, retry_count, setp, state, current_position, target_pos_1,
                   target_pos_2, move, elapsed, calls, history>>
    /\ UNCHANGED telemetry

\* write and parse the recipe file, construct rtde.RTDE: no transport call yet
PrepareConfig ==
    /\ pc = "prepare"
    /\ \/ Goto("connect")
       \/ Propagate("UncaughtError", interrupts)
    /\ UNCHANGED <<connected, locals, calls, history>>
    /\ UNCHANGED telemetry

(***************************************************************************)
(* Lines 169-175: connect.                                                 *)
(***************************************************************************)
Connect ==
    /\ pc = "connect"
    /\ \/ Logged("connect", "ok") /\ connected' = TRUE /\ Goto("version")
       \/ Logged("connect", "error") /\ connected' = FALSE /\ Failed
       \/ Logged("connect", "interrupt") /\ connected' \in BOOLEAN /\ Interrupted(Here)
    /\ UNCHANGED <<locals, history>>
    /\ UNCHANGED telemetry

\* the while condition of line 182 and the statements after the loop (214-216)
AfterLoop(s) ==
    IF s = None THEN Return("SetupFailed") ELSE Goto("start")

LoopTop(rc, s) ==
    IF rc < max_retries THEN Goto("output_setup") ELSE AfterLoop(s)

\* version = con.get_controller_version(); max_retries = 3; retry_count = 0; setp = None
GetVersion ==
    /\ pc = "version"
    /\ \/ /\ Logged("get_controller_version", "ok")
          /\ retry_count' = 0
          /\ setp' = None
          /\ LoopTop(0, None)
       \/ Raises("get_controller_version") /\ UNCHANGED <<retry_count, setp>>
    /\ UNCHANGED <<response, connected, state, current_position, target_pos_1, target_pos_2,
                   move, elapsed, history>>
    /\ UNCHANGED telemetry

(***************************************************************************)
(* Lines 182-216: recipe setup with retry on "already in use".             *)
(***************************************************************************)
\* variant: the handler forgets retry_count += 1
OnValueError_NoCount(msg) ==
    IF AlreadyInUse(msg)
    THEN retry_count' = retry_count /\ Goto("retry_disconnect")
    ELSE retry_count' = retry_count /\ Failed

\* except ValueError as e (189-209), up to the disconnect of line 194
OnValueError(msg) ==
    IF AlreadyInUse(msg)
    THEN retry_count' = retry_count + 1 /\ Goto("retry_disconnect")
    ELSE retry_count' = retry_count /\ Failed

\* a recipe setup call raises: ValueError (189), Exception (210) or KeyboardInterrupt
SetupRaises(op) ==
    \/ \E msg \in ValueErrorMessages :
            calls' = Append(calls, Call(op, "ValueError", msg)) /\ OnValueError(msg)
    \/ Raises(op) /\ retry_count' = retry_count

\* con.send_output_setup(state_names, state_types)
OutputSetup ==
    /\ pc = "output_setup"
    /\ \/ Logged("send_output_setup", "ok") /\ Goto("input_setup")
             /\ retry_count' = retry_count
       \/ SetupRaises("send_output_setup")
    /\ UNCHANGED <<response, connected, setp, state, current_position, target_pos_1,
                   target_pos_2, move, elapsed, history>>
    /\ UNCHANGED telemetry

\* setp = con.send_input_setup(setp_names, setp_types); break
InputSetup ==
    /\ pc = "input_setup"
    /\ \/ /\ Logged("send_input_setup", "ok")
          /\ setp' = [kind |-> "setp", regs |-> <<>>]
          /\ retry_count' = retry_count
          /\ AfterLoop(setp')
       \/ /\ Logged("send_input_setup", "none")
          /\ setp' = None
          /\ retry_count' = retry_count
          /\ AfterLoop(setp')
       \/ SetupRaises("send_input_setup") /\ setp' = setp
    /\ UNCHANGED <<response, connected, state, current_position, target_pos_1, target_pos_2,
                   move, elapsed, history>>
    /\ UNCHANGED telemetry

\* con.disconnect() of line 194
RetryDisconnect ==
    /\ pc = "retry_disconnect"
    /\ \/ Logged("disconnect", "ok") /\ connected' = FALSE /\ Goto("retry_sleep")
       \/ Logged("disconnect", "error") /\ connected' = connected /\ Failed
       \/ Logged("disconnect", "interrupt") /\ connected' \in {connected, FALSE}
             /\ Interrupted(Here)
    /\ UNCHANGED <<locals, history>>
    /\ UNCHANGED telemetry

\* variant: the handler reconnects after every grace sleep, budget left or not
RetrySleep_AlwaysReconnects ==
    /\ pc = "retry_sleep"
    /\ \/ Logged("grace_sleep", "ok") /\ Goto("retry_connect")
       \/ Logged("grace_sleep", "interrupt") /\ Interrupted(Here)
    /\ UNCHANGED <<connected, locals, history>>
    /\ UNCHANGED telemetry

\* variant: the handler goes back to the recipe setup without reconnecting
RetrySleep_SkipsReconnect ==
    /\ pc = "retry_sleep"
    /\ \/ /\ Logged("grace_sleep", "ok")
          /\ IF retry_count < max_retries
             THEN Goto("output_setup")
             ELSE Return("ConfigRetriesExhausted")
       \/ Logged("grace_sleep", "interrupt") /\ Interrupted(Here)
    /\ UNCHANGED <<connected, locals, history>>
    /\ UNCHANGED telemetry

\* time.sleep(2); if retry_count < max_retries: ... else: return (195-207)
RetrySleep ==
    /\ pc = "retry_sleep"
    /\ \/ /\ Logged("grace_sleep", "ok")
          /\ IF retry_count < max_retries
             THEN Goto("retry_connect")
             ELSE Return("ConfigRetriesExhausted")
       \/ Logged("grace_sleep", "interrupt") /\ Interrupted(Here)
    /\ UNCHANGED <<connected, locals, history>>
    /\ UNCHANGED telemetry

\* con.connect() of line 199
RetryConnect ==
    /\ pc = "retry_connect"
    /\ \/ Logged("connect", "ok") /\ connected' = TRUE /\ Goto("retry_version")
       \/ Logged("connect", "error") /\ connected' = FALSE /\ Failed
       \/ Logged("connect", "interrupt") /\ connected' \in BOOLEAN /\ Interrupted(Here)
    /\ UNCHANGED <<locals, history>>
    /\ UNCHANGED telemetry

\* version = con.get_controller_version() of line 200, then the loop condition
RetryVersion ==
    /\ pc = "retry_version"
    /\ \/ Logged("get_controller_version", "ok") /\ LoopTop(retry_count, setp)
       \/ Raises("get_controller_version")
    /\ UNCHANGED <<connected, locals, history>>
    /\ UNCHANGED telemetry

(***************************************************************************)
(* Lines 218-222: start of synchronization.                                *)
(***************************************************************************)
\* variant: a refused start is reported but the run goes on
Start_IgnoresRefusal ==
    /\ pc = "start"
    /\ \/ Logged("send_start", "ok") /\ Goto("recv_ref")
       \/ Logged("send_start", "false") /\ Goto("recv_ref")
       \/ Raises("send_start")
    /\ UNCHANGED <<connected, locals, history>>
    /\ UNCHANGED telemetry

\* if not con.send_start(): return
Start ==
    /\ pc = "start"
    /\ \/ Logged("send_start", "ok") /\ Goto("recv_ref")
       \/ Logged("send_start", "false") /\ Return("StartFailed")
       \/ Raises("send_start")
    /\ UNCHANGED <<connected, locals, history>>
    /\ UNCHANGED telemetry

(***************************************************************************)
(* Lines 224-267: reference position, the two targets, their validation.   *)
(***************************************************************************)
Received == receives' = Min2(receives + 1, MaxRecvCount)

Validation(ref, targ, max_delta, v) ==
    [reference |-> ref, target |-> targ, max_delta |-> max_delta, ok |-> v.ok,
     joint |-> v.joint, delta |-> v.delta]

\* variant: the validation results are printed but never end the run
ValidateMovements_Ignored(v1, v2) == Goto("pre_move_sleep")

\* lines 250-260: validate movement 1, then movement 2, return on the first failure
ValidateMovements(v1, v2) ==
    IF ~v1.ok THEN Return("Validation1Failed")
    ELSE IF ~v2.ok THEN Return("Validation2Failed")
    ELSE Goto("pre_move_sleep")

\* variant: only movement 1 is validated before the movements start
PlanMovements_OneValidation(q) ==
    /\ current_position' = q
    /\ IF Len(q) < JointCount
       THEN /\ target_pos_1' = q
            /\ target_pos_2' = target_pos_2
            /\ validations' = validations
            /\ Failed
       ELSE LET t1 == [q EXCEPT ![JointCount] = @ + SMALL_MOVEMENT_OFFSET]
                v1 == validate_joint_position(q, t1, MAX_JOINT_MOVEMENT)
            IN  /\ target_pos_1' = t1
                /\ target_pos_2' = q
                /\ validations' = Append(validations, Validation(q, t1, MAX_JOINT_MOVEMENT, v1))
                /\ ValidateMovements(v1, v1)

\* lines 234-260 on the reference sample with actual_q = q
PlanMovements(q) ==
    /\ current_position' = q
    /\ IF Len(q) < JointCount
       THEN \* target_pos_1[5] += ... raises IndexError
            /\ target_pos_1' = q
            /\ target_pos_2' = target_pos_2
            /\ validations' = validations
            /\ Failed
       ELSE LET t1 == [q EXCEPT ![JointCount] = @ + SMALL_MOVEMENT_OFFSET]
                t2 == q
                v1 == validate_joint_position(q, t1, MAX_JOINT_MOVEMENT)
                v2 == validate_joint_position(t1, t2, MAX_JOINT_MOVEMENT)
            IN  /\ target_pos_1' = t1
                /\ target_pos_2' = t2
                /\ validations' =
                      IF v1.ok
                      THEN validations \o <<Validation(q, t1, MAX_JOINT_MOVEMENT, v1),
                                             Validation(t1, t2, MAX_JOINT_MOVEMENT, v2)>>
                      ELSE Append(validations, Validation(q, t1, MAX_JOINT_MOVEMENT, v1))
                /\ ValidateMovements(v1, v2)

\* state = con.receive(); if state is None: return; ... (229-266)
ReadReference ==
    /\ pc = "recv_ref"
    /\ Received
    /\ \/ \E q \in PositionSamples, qd \in VelocitySamples :
            /\ state' = Sample(q, qd)
            /\ PlanMovements(q)
       \/ /\ state' = None
          /\ Return("NoState")
          /\ UNCHANGED <<current_position, target_pos_1, target_pos_2, validations>>
       \/ /\ \/ Failed
             \/ Interrupted(Here)
          /\ UNCHANGED <<state, current_position, target_pos_1, target_pos_2, validations>>
    /\ UNCHANGED <<response, connected, retry_count, setp, move, elapsed, calls, sent, waits>>
    /\ UNCHANGED telemetry

\* time.sleep(2) of line 267
PreMoveSleep ==
    /\ pc = "pre_move_sleep"
    /\ \/ move' = 1 /\ Goto("send")
       \/ move' = move /\ Interrupted(Here)
    /\ UNCHANGED <<response, connected, retry_count, setp, state, current_position, target_pos_1,
                   target_pos_2, elapsed, calls, history>>
    /\ UNCHANGED telemetry

(***************************************************************************)
(* Lines 269-303: the two movements.                                       *)
(***************************************************************************)
\* the target of the movement being executed
Target == IF move = 1 THEN target_pos_1 ELSE target_pos_2

\* variant: the return of line 284 is missing, movement 2 follows a failed wait
WaitFailed_GoesOn ==
    IF move = 1 THEN Goto("between_sleep") ELSE Return("Movement2Timeout")

\* wait_for_move_completion returned False to line 278 or 297
WaitFailed == IF move = 1 THEN Return("Movement1Timeout") ELSE Return("Movement2Timeout")

\* variant: the loop goes on while the elapsed time equals the timeout
WaitTop_OffByOne(e) ==
    IF e <= MOVEMENT_TIMEOUT
    THEN Goto("wait_recv") /\ waits' = waits
    ELSE WaitFailed /\ waits' = Append(waits, "TimedOut")

\* the while condition of line 95
WaitTop(e) ==
    IF e < MOVEMENT_TIMEOUT
    THEN Goto("wait_recv") /\ waits' = waits
    ELSE WaitFailed /\ waits' = Append(waits, "TimedOut")

\* for i in range(6): setp.__dict__[...] = target[i]; con.send(setp); start_time = time.time()
SendTarget ==
    /\ pc = "send"
    /\ setp' = [setp EXCEPT !.regs = SubSeq(Target, 1, JointCount)]
    /\ sent' = Append(sent, setp'.regs)
    /\ \/ Logged("send", "ok") /\ elapsed' = 0 /\ WaitTop(0)
       \/ Raises("send") /\ elapsed' = elapsed /\ waits' = waits
    /\ UNCHANGED <<response, connected, retry_count, state, current_position, target_pos_1,
                   target_pos_2, move, receives, validations>>
    /\ UNCHANGED telemetry

\* max([abs(v) for v in state.actual_qd])
MaxVelocity(qd) == Max({Abs(qd[i]) : i \in 1..Len(qd)})

\* variant: a sample at the threshold counts as stopped
Stopped_AtThreshold(qd) == MaxVelocity(qd) <= StillnessThreshold

\* max_velocity < 0.001
Stopped(qd) == MaxVelocity(qd) < StillnessThreshold

\* the actual_qd the next poll may receive
NextVelocities ==
    IF consumed < Len(stream) THEN {stream[consumed + 1]} ELSE VelocitySamples

\* state = con.receive() and the two tests on it (96-103)
WaitReceive ==
    /\ pc = "wait_recv"
    /\ Received
    /\ \/ \E qd \in NextVelocities, d \in 0..MaxRecvDelay :
            /\ consumed' = Min2(consumed + 1, Len(stream))
            /\ IF qd = <<>>
               THEN \* max([]) raises ValueError
                    Failed /\ UNCHANGED <<elapsed, waits>>
               ELSE IF Stopped(qd)
               THEN Goto("reread") /\ elapsed' = elapsed + d
                    /\ waits' = Append(waits, "Settled")
               ELSE Goto("wait_sleep") /\ elapsed' = elapsed + d /\ waits' = waits
       \/ WaitFailed /\ waits' = Append(waits, "SessionLost") /\ elapsed' = elapsed
             /\ consumed' = consumed
       \/ /\ \/ Failed
             \/ Interrupted(Here)
          /\ UNCHANGED <<elapsed, waits, consumed>>
    /\ stream' = stream
    /\ UNCHANGED <<response, connected, retry_count, setp, state, current_position, target_pos_1,
                   target_pos_2, move, calls, validations, sent>>

\* how far the clock, read in whole seconds, moves during time.sleep(0.01)
PollAdvance == {0, 1}

\* variant: start_time is taken again in every iteration of the loop
WaitSleep_RestartsClock ==
    /\ pc = "wait_sleep"
    /\ \/ elapsed' = 0 /\ WaitTop(0)
       \/ Interrupted(Here) /\ UNCHANGED <<elapsed, waits>>
    /\ UNCHANGED <<response, connected, retry_count, setp, state, current_position, target_pos_1,
                   target_pos_2, move, calls, receives, validations, sent>>
    /\ UNCHANGED telemetry

\* time.sleep(0.01), then the while condition again
WaitSleep ==
    /\ pc = "wait_sleep"
    /\ \/ \E d \in PollAdvance : elapsed' = elapsed + d /\ WaitTop(elapsed')
       \/ Interrupted(Here) /\ UNCHANGED <<elapsed, waits>>
    /\ UNCHANGED <<response, connected, retry_count, setp, state, current_position, target_pos_1,
                   target_pos_2, move, calls, receives, validations, sent>>
    /\ UNCHANGED telemetry

\* variant: the run ends as successful after the first movement
AfterMovement_StopsAfterFirst == Return("Success")

\* the statements after a movement completed: line 286, or the end of the try block
AfterMovement ==
    IF move = 1 THEN Goto("between_sleep") ELSE Return("Success")

\* variant: a re-read that yields no sample is tolerated and the sequence goes on
Reread_ToleratesNone ==
    /\ pc = "reread"
    /\ Received
    /\ \/ \E q \in PositionSamples, qd \in VelocitySamples :
            state' = Sample(q, qd) /\ AfterMovement
       \/ state' = None /\ AfterMovement
       \/ /\ \/ Failed
             \/ Interrupted(Here)
          /\ state' = state
    /\ UNCHANGED <<response, connected, retry_count, setp, current_position, target_pos_1,
                   target_pos_2, move, elapsed, calls, validations, sent, waits>>
    /\ UNCHANGED telemetry

\* state = con.receive(); print_joint_positions(list(state.actual_q), ...) (279-281, 298-300)
Reread ==
    /\ pc = "reread"
    /\ Received
    /\ \/ \E q \in PositionSamples, qd \in VelocitySamples :
            state' = Sample(q, qd) /\ AfterMovement
       \/ \* state.actual_q on None raises AttributeError
          state' = None /\ Failed
       \/ /\ \/ Failed
             \/ Interrupted(Here)
          /\ state' = state
    /\ UNCHANGED <<response, connected, retry_count, setp, current_position, target_pos_1,
                   target_pos_2, move, elapsed, calls, validations, sent, waits>>
    /\ UNCHANGED telemetry

\* time.sleep(1) of line 286
BetweenSleep ==
    /\ pc = "between_sleep"
    /\ \/ move' = 2 /\ Goto("send")
       \/ move' = move /\ Interrupted(Here)
    /\ UNCHANGED <<response, connected, retry_count, setp, state, current_position, target_pos_1,
                   target_pos_2, elapsed, calls, history>>
    /\ UNCHANGED telemetry

(***************************************************************************)
(* Lines 320-328: the finally clause.                                      *)
(***************************************************************************)
\* the bare except of line 327 swallows whatever the cleanup raises
Swallowed(ints) ==
    /\ pc' = "done"
    /\ result' = result
    /\ interrupts' = ints

\* con.send_pause()
Pause ==
    /\ pc = "pause"
    /\ \/ Logged("send_pause", "ok") /\ Goto("disconnect")
       \/ Logged("send_pause", "error") /\ Swallowed(interrupts)
       \/ Logged("send_pause", "interrupt") /\ Swallowed(Append(interrupts, Here))
    /\ UNCHANGED <<connected, locals, history>>
    /\ UNCHANGED telemetry

\* con.disconnect()
Disconnect ==
    /\ pc = "disconnect"
    /\ \/ Logged("disconnect", "ok") /\ connected' = FALSE /\ Swallowed(interrupts)
       \/ Logged("disconnect", "error") /\ connected' = connected
             /\ Swallowed(interrupts)
       \/ Logged("disconnect", "interrupt") /\ connected' \in {connected, FALSE}
             /\ Swallowed(Append(interrupts, Here))
    /\ UNCHANGED <<locals, history>>
    /\ UNCHANGED telemetry

Next ==
    \/ Prompt
    \/ PrepareConfig
    \/ Connect
    \/ GetVersion
    \/ OutputSetup
    \/ InputSetup
    \/ RetryDisconnect
    \/ RetrySleep
    \/ RetryConnect
    \/ RetryVersion
    \/ Start
    \/ ReadReference
    \/ PreMoveSleep
    \/ SendTarget
    \/ WaitReceive
    \/ WaitSleep
    \/ Reread
    \/ BetweenSleep
    \/ Pause
    \/ Disconnect

Spec == Init /\ [][Next]_vars

(***************************************************************************)
(* The run under the assumptions that every call returns (the function     *)
(* keeps taking steps) and that time.time() advances: of the polls of      *)
(* lines 95-105, infinitely many see the clock move on.                    *)
(***************************************************************************)
ClockAdvances == WaitSleep /\ elapsed' > elapsed

FairSpec == Spec /\ WF_vars(Next) /\ SF_vars(ClockAdvances)

(***************************************************************************)
(* validate_joint_position called on its own, on pairs of 6-joint          *)
(* positions (in 0.01 rad) and several values of max_delta.                *)
(***************************************************************************)
ValidatorReferences == {<<0, 0, 0, 0, 0, 0>>, <<5, 5, 5, 5, 5, 5>>}

ValidatorTargets == [1..JointCount -> {0, 5, 10}]

ValidatorMaxDeltas == {4, MAX_JOINT_MOVEMENT, 10}

InitValidate ==
    /\ pc = "validate"
    /\ response = Unset
    /\ connected = FALSE
    /\ retry_count = 0
    /\ setp = None
    /\ state = None
    /\ current_position \in ValidatorReferences
    /\ target_pos_1 \in ValidatorTargets
    /\ target_pos_2 = <<>>
    /\ move = 0
    /\ elapsed = 0
    /\ result = "running"
    /\ calls = <<>>
    /\ receives = 0
    /\ validations = <<>>
    /\ sent = <<>>
    /\ waits = <<>>
    /\ interrupts = <<>>
    /\ stream = <<>>
    /\ consumed = 0

\* is_safe, msg = validate_joint_position(current_pos, target_pos, max_delta)
ValidateCall ==
    /\ pc = "validate"
    /\ \E max_delta \in ValidatorMaxDeltas :
          validations' = Append(validations,
              Validation(current_position, target_pos_1, max_delta,
                         validate_joint_position(current_position, target_pos_1, max_delta)))
    /\ pc' = "validated"
    /\ UNCHANGED <<response, connected, retry_count, setp, state, current_position,
                   target_pos_1, target_pos_2, move, elapsed, result, calls, receives,
                   sent, waits, interrupts>>
    /\ UNCHANGED telemetry

ValidateSpec == InitValidate /\ [][ValidateCall]_vars

(***************************************************************************)
(* wait_for_move_completion on a telemetry stream fixed in advance: the    *)
(* run has just sent the first target of the reference position            *)
(* [0, -1.57, 0, -1.57, 0, 0] and enters the polling loop.                 *)
(***************************************************************************)
ReferencePosition == <<0, -157, 0, -157, 0, 0>>

OutboundTarget == [ReferencePosition EXCEPT ![JointCount] = @ + SMALL_MOVEMENT_OFFSET]

\* the well-formed velocity samples
StreamVelocities == {qd \in VelocitySamples : Len(qd) = JointCount}

Streams == UNION {[1..n -> StreamVelocities] : n \in 0..MaxStream}

\* the state of a run without incident at line 278, before the first poll
AtFirstWait ==
    /\ pc = "wait_recv"
    /\ response = "YES"
    /\ connected = TRUE
    /\ retry_count = 0
    /\ setp = [kind |-> "setp", regs |-> OutboundTarget]
    /\ state = Sample(ReferencePosition, <<0, 0, 0, 0, 0, 0>>)
    /\ current_position = ReferencePosition
    /\ target_pos_1 = OutboundTarget
    /\ target_pos_2 = ReferencePosition
    /\ move = 1
    /\ elapsed = 0
    /\ result = "running"
    /\ calls = << Call("connect", "ok", <<>>),
                  Call("get_controller_version", "ok", <<>>),
                  Call("send_output_setup", "ok", <<>>),
                  Call("send_input_setup", "ok", <<>>),
                  Call("send_start", "ok", <<>>),
                  Call("send", "ok", <<>>) >>
    /\ receives = 1
    /\ validations =
          << Validation(ReferencePosition, OutboundTarget, MAX_JOINT_MOVEMENT,
                        validate_joint_position(ReferencePosition, OutboundTarget,
                                                MAX_JOINT_MOVEMENT)),
             Validation(OutboundTarget, ReferencePosition, MAX_JOINT_MOVEMENT,
                        validate_joint_position(OutboundTarget, ReferencePosition,
                                                MAX_JOINT_MOVEMENT)) >>
    /\ sent = <<OutboundTarget>>
    /\ waits = <<>>
    /\ interrupts = <<>>

InitWait ==
    /\ AtFirstWait
    /\ stream \in Streams
    /\ consumed = 0

NextWait ==
    \/ WaitReceive
    \/ WaitSleep

WaitSpec == InitWait /\ [][NextWait]_vars

(***************************************************************************)
(* Vocabulary of the properties, over the history variables.               *)
(***************************************************************************)
\* the positions in calls of the calls named op
Ops(op) == {i \in DOMAIN calls : calls[i].op = op}

Count(op) == Cardinality(Ops(op))

\* the disconnects of the finally clause: those that follow the send_pause
TeardownDisconnects == {i \in Ops("disconnect") : \E j \in Ops("send_pause") : j < i}

\* the disconnects of the retry loop
LoopDisconnects == Ops("disconnect") \ TeardownDisconnects

\* the reconnects of the retry loop: every connect but the first
LoopReconnects == {i \in Ops("connect") : \E j \in Ops("connect") : j < i}

\* a recipe setup call rejected with a register conflict
IsConflict(c) ==
    /\ c.op \in {"send_output_setup", "send_input_setup"}
    /\ c.res = "ValueError"
    /\ Contains(c.msg, <<"already", "in", "use">>)

\* a recipe setup call rejected with another ValueError
IsOtherRejection(c) ==
    /\ c.op \in {"send_output_setup", "send_input_setup"}
    /\ c.res = "ValueError"
    /\ ~Contains(c.msg, <<"already", "in", "use">>)

Conflicts == {i \in DOMAIN calls : IsConflict(calls[i])}

\* the run is in, or past, the finally clause
InTeardown == pc \in {"pause", "disconnect"}

Ended == pc = "done"

\* no call before the finally clause raised an Exception or was interrupted
CleanUntilTeardown ==
    /\ \A i \in DOMAIN calls :
          calls[i].res \in {"error", "interrupt"}
             => calls[i].op = "send_pause" \/ i \in TeardownDisconnects
    /\ \A k \in DOMAIN interrupts : interrupts[k][1] \in {"pause", "disconnect"}

(***************************************************************************)
(* C1.  As claimed: whichever step ends an invocation, user cancellation   *)
(* at the prompt included, the teardown path (pause, then disconnect) has  *)
(* been executed exactly once when the run returns.                        *)
(***************************************************************************)
C1_TeardownOnEveryExit ==
    Ended => Count("send_pause") = 1

(***************************************************************************)
(* C1, amended.  The teardown path is entered exactly once by every        *)
(* invocation that reached the connect call, and by no other: send_pause   *)
(* is never called twice, a run that has ended called it once if it called *)
(* connect and not at all otherwise; the teardown disconnect is called     *)
(* once if that send_pause returned and not at all if it raised.           *)
(***************************************************************************)
C1_TeardownOnceAfterConnect ==
    /\ Count("send_pause") <= 1
    /\ Cardinality(TeardownDisconnects) <= 1
    /\ Ended /\ Count("connect") > 0 => Count("send_pause") = 1
    /\ Ended /\ Count("connect") = 0 => Count("send_pause") = 0
    /\ Ended => \A i \in Ops("send_pause") :
                  IF calls[i].res = "ok"
                  THEN Cardinality(TeardownDisconnects) = 1
                  ELSE TeardownDisconnects = {}

\* C1 witness: a run that failed to start synchronization has ended, torn down
C1_Witness ==
    /\ Ended
    /\ result = "StartFailed"
    /\ Count("send_pause") = 1
    /\ Cardinality(TeardownDisconnects) = 1

(***************************************************************************)
(* C2.  Every target handed to con.send was validated ok before, with      *)
(* MAX_JOINT_MOVEMENT, against the previous position: the reference        *)
(* position for the first target, the first target for the second.  Once a *)
(* validation returned not-ok, nothing is ever sent.                       *)
(***************************************************************************)
ValidatedOk(ref, targ) ==
    \E j \in DOMAIN validations :
        /\ validations[j].ok
        /\ validations[j].reference = ref
        /\ validations[j].target = targ
        /\ validations[j].max_delta = MAX_JOINT_MOVEMENT

\* C2: every sent target was validated ok against its predecessor; after a not-ok
\* validation nothing is sent
C2_SendOnlyValidated ==
    /\ \A i \in DOMAIN sent :
          ValidatedOk(IF i = 1 THEN current_position ELSE sent[i - 1], sent[i])
    /\ (\E j \in DOMAIN validations : ~validations[j].ok) => sent = <<>>

\* C2 witness: both targets have been sent
C2_Witness == Len(sent) = 2 /\ Ended

\* the other case of C2: a run ended by a failed validation
C2_ValidationFailureReached == Ended /\ result = "Validation1Failed"

(***************************************************************************)
(* C3.  At most one motion request is outstanding: each send but the first *)
(* follows a wait that returned Settled for the send before it, and after  *)
(* a first wait that ended in timeout or lost telemetry there is no second *)
(* send.                                                                   *)
(***************************************************************************)
C3_OneOutstandingRequest ==
    /\ Len(sent) <= Len(waits) + 1
    /\ \A i \in 1..(Len(sent) - 1) : waits[i] = "Settled"
    /\ (Len(waits) >= 1 /\ waits[1] \in {"TimedOut", "SessionLost"}) => Len(sent) = 1

\* C3 witness: the second target was sent after the first wait settled
C3_Witness == Len(sent) = 2 /\ waits[1] = "Settled"

\* the other case of C3: the first wait timed out and the run ended
C3_TimeoutReached == Ended /\ waits = <<"TimedOut">>

(***************************************************************************)
(* C4.  The recipe setup loop makes at most max_retries (3) configuration  *)
(* attempts whatever the transport does.  When every attempt is rejected   *)
(* with a register conflict it makes exactly 3 and the run ends with the   *)
(* terminal configuration error, synchronization never started, nothing    *)
(* sent, no further attempt.                                               *)
(***************************************************************************)
\* one configuration attempt is one pass through the try body of line 184
Attempts == Count("send_output_setup")

\* C4: at most max_retries attempts; all rejected with a conflict: exactly
\* max_retries, then the terminal configuration error, no start, no send
C4_BoundedConfigurationAttempts ==
    /\ Attempts <= max_retries
    /\ Cardinality(Conflicts) <= max_retries
    /\ Cardinality(Conflicts) = max_retries =>
          /\ Attempts = max_retries
          /\ Count("send_start") = 0
          /\ sent = <<>>
          /\ pc \in {"retry_disconnect", "retry_sleep", "pause", "disconnect", "done"}
    /\ (Ended /\ CleanUntilTeardown /\ Attempts > 0 /\ Cardinality(Conflicts) = Attempts) =>
          /\ Attempts = max_retries
          /\ result = "ConfigRetriesExhausted"

\* C4 witness: three attempts, three conflicts, the run has ended
C4_Witness ==
    /\ Ended
    /\ CleanUntilTeardown
    /\ Attempts = max_retries
    /\ Cardinality(Conflicts) = max_retries
    /\ result = "ConfigRetriesExhausted"

(***************************************************************************)
(* C5.  As claimed: every register-conflict rejection is followed, in this *)
(* order, by a disconnect, the grace wait and a reconnect (when none of    *)
(* them fails), so three conflicts give three disconnect/reconnect cycles. *)
(***************************************************************************)
C5_ReconnectAfterEveryConflict ==
    (Ended /\ CleanUntilTeardown) =>
        \A i \in Conflicts :
            /\ i + 3 <= Len(calls)
            /\ calls[i + 1].op = "disconnect"
            /\ calls[i + 2].op = "grace_sleep"
            /\ calls[i + 3].op = "connect"

(***************************************************************************)
(* C5, amended.  Every register-conflict rejection is followed at once by  *)
(* a disconnect and, when that returns, by the grace wait; after the wait  *)
(* the loop reconnects only while fewer than max_retries conflicts have    *)
(* been seen, and after the last one the run goes to teardown without      *)
(* reconnecting.  Three conflicts give 3 disconnects and 2 reconnects.     *)
(***************************************************************************)
ConflictsUpTo(i) == Cardinality({j \in Conflicts : j <= i})

\* C5, amended: conflict, disconnect, grace wait, and a reconnect only while the
\* budget is not exhausted
C5_ReconnectWhileBudgetRemains ==
    /\ \A i \in Conflicts :
          /\ i = Len(calls) => pc = "retry_disconnect"
          /\ i < Len(calls) => calls[i + 1].op = "disconnect" /\ i + 1 \in LoopDisconnects
          /\ (i < Len(calls) /\ calls[i + 1].res = "ok") =>
                /\ i + 1 = Len(calls) => pc = "retry_sleep"
                /\ i + 1 < Len(calls) => calls[i + 2].op = "grace_sleep"
          /\ (i + 1 < Len(calls) /\ calls[i + 1].res = "ok" /\ calls[i + 2].res = "ok") =>
                IF ConflictsUpTo(i) < max_retries
                THEN /\ i + 2 = Len(calls) => pc = "retry_connect"
                     /\ i + 2 < Len(calls) => calls[i + 3].op = "connect"
                ELSE /\ i + 2 = Len(calls) => pc = "pause"
                     /\ i + 2 < Len(calls) => calls[i + 3].op = "send_pause"
    /\ (Ended /\ result = "ConfigRetriesExhausted") =>
          /\ Cardinality(LoopDisconnects) = max_retries
          /\ Cardinality(LoopReconnects) = max_retries - 1

\* C5 witness: the budget was exhausted after 3 disconnects and 2 reconnects
C5_Witness ==
    /\ Ended
    /\ result = "ConfigRetriesExhausted"
    /\ Cardinality(Conflicts) = max_retries
    /\ Cardinality(LoopDisconnects) = max_retries
    /\ Cardinality(LoopReconnects) = max_retries - 1

(***************************************************************************)
(* C6.  A recipe setup rejection that is not a register conflict is never  *)
(* retried: every call after it belongs to the teardown (send_pause, then  *)
(* disconnect), synchronization is not started, nothing is sent, and the   *)
(* run is in the finally clause or has ended after one teardown.           *)
(***************************************************************************)
C6_OtherRejectionNotRetried ==
    \A i \in DOMAIN calls :
        IsOtherRejection(calls[i]) =>
            /\ \A j \in (i + 1)..Len(calls) :
                  \/ calls[j].op = "send_pause"
                  \/ calls[j].op = "disconnect" /\ j \in TeardownDisconnects
            /\ Count("send_start") = 0
            /\ sent = <<>>
            /\ InTeardown \/ Ended
            /\ result = "Error"
            /\ Ended => Count("send_pause") = 1

\* C6 witness: a run ended, torn down, after a rejection that is no conflict
C6_Witness ==
    /\ Ended
    /\ \E i \in DOMAIN calls : IsOtherRejection(calls[i])
    /\ Count("send_pause") = 1

(***************************************************************************)
(* C7.  As claimed: the teardown never propagates a failure and always     *)
(* leaves the transport disconnected, also when its pause step fails on a  *)
(* session that is still connected.                                        *)
(***************************************************************************)
C7_TeardownLeavesDisconnected ==
    (Ended /\ Count("send_pause") >= 1) => ~connected

(***************************************************************************)
(* C8.  As claimed: wherever an external interrupt arrives (the prompt,    *)
(* any transport call, any sleep, the teardown calls themselves), the run  *)
(* ends having executed both teardown steps, pause and disconnect.         *)
(***************************************************************************)
C8_InterruptRunsFullTeardown ==
    (Ended /\ interrupts # <<>>) =>
        /\ Count("send_pause") = 1
        /\ Cardinality(TeardownDisconnects) = 1

(***************************************************************************)
(* C9.  An interrupt delivered while wait_for_move_completion awaits the   *)
(* first target (in its receive or in its poll sleep) leads to exactly one *)
(* send in the whole run and to the teardown being entered exactly once.   *)
(***************************************************************************)
InterruptedInFirstWait ==
    \E k \in DOMAIN interrupts :
        interrupts[k][1] \in {"wait_recv", "wait_sleep"} /\ interrupts[k][2] = 1

\* C9: interrupted in the first wait: one send in the run, one teardown
C9_AbortMidMotion ==
    InterruptedInFirstWait =>
        /\ Len(sent) = 1
        /\ Count("send") = 1
        /\ InTeardown \/ Ended
        /\ result = "Interrupted"
        /\ Count("send_pause") <= 1
        /\ Ended => Count("send_pause") = 1

\* C9 witness: a run interrupted in its first wait has ended
C9_Witness == InterruptedInFirstWait /\ Ended /\ Count("send_pause") = 1

(***************************************************************************)
(* C10.  No transport call is made before the user has affirmed at the     *)
(* prompt; when the user types anything else the run ends as UserCancelled *)
(* without a single connect, configure, start, receive or send.            *)
(***************************************************************************)
\* the user typed YES, in any case
Affirmed == response \in {"YES", "yes"}

\* C10: transport calls only after the user affirmed; a cancelled run made none
C10_NoNetworkBeforeConfirmation ==
    /\ (calls # <<>> \/ receives > 0 \/ sent # <<>> \/ connected) => Affirmed
    /\ (response # Unset /\ ~Affirmed) => result = "UserCancelled"
    /\ result = "UserCancelled" =>
          /\ Ended
          /\ calls = <<>>
          /\ receives = 0
          /\ sent = <<>>
          /\ ~connected

\* C10 witness: the user typed no and the run has ended as cancelled
C10_Witness == response = "no" /\ result = "UserCancelled" /\ Ended

(***************************************************************************)
(* C11.  On a telemetry stream whose maximum absolute joint velocity is    *)
(* first strictly below the stillness threshold at sample N,               *)
(* wait_for_move_completion returns Settled after taking exactly N         *)
(* samples: not on an earlier sample, one at the threshold included, and   *)
(* it never asks for sample N + 1.                                         *)
(***************************************************************************)
\* the largest |v| of a sample, and whether it is strictly below the threshold
PeakVelocity(qd) == Max({Abs(qd[i]) : i \in DOMAIN qd})

BelowThreshold(qd) == PeakVelocity(qd) < StillnessThreshold

\* N: the first sample of stream below the threshold, 0 when there is none
FirstBelow ==
    LET S == {i \in DOMAIN stream : BelowThreshold(stream[i])}
    IN  IF S = {} THEN 0 ELSE CHOOSE i \in S : \A j \in S : i <= j

LastWait == IF waits = <<>> THEN "none" ELSE waits[Len(waits)]

\* C11: Settled is returned at sample N exactly, and sample N + 1 is never taken
C11_SettledAtFirstStillSample ==
    /\ FirstBelow > 0 => consumed <= FirstBelow
    /\ (FirstBelow > 0 /\ LastWait = "Settled") => consumed = FirstBelow
    /\ (FirstBelow = 0 /\ LastWait = "Settled") => consumed = Len(stream)
    /\ (FirstBelow > 0 /\ consumed = FirstBelow /\ pc \notin {"pause", "done"}) =>
          LastWait = "Settled" /\ pc = "reread"

\* C11 witness: Settled on the third sample, after a moving one and one at the threshold
C11_Witness ==
    /\ LastWait = "Settled"
    /\ FirstBelow = 3
    /\ consumed = 3
    /\ PeakVelocity(stream[1]) > StillnessThreshold
    /\ PeakVelocity(stream[2]) = StillnessThreshold

(***************************************************************************)
(* C12.  When every sample taken is at or above the threshold the wait     *)
(* ends TimedOut, not Settled, as soon as the elapsed time read at the top *)
(* of the loop has reached MOVEMENT_TIMEOUT, even when the next sample of  *)
(* the stream is below the threshold: no poll is made past the timeout.    *)
(***************************************************************************)
Taken == {stream[i] : i \in 1..consumed}

JointDelta(v, i) == Abs(v.target[i] - v.reference[i])

LargestDelta(v) == Max({JointDelta(v, i) : i \in 1..JointCount})

\* C13: ok iff the largest delta is within max_delta; else the first offending joint
C13_ValidatorBound ==
    \A k \in DOMAIN validations :
        LET v == validations[k] IN
        (Len(v.reference) = JointCount /\ Len(v.target) = JointCount) =>
            /\ v.ok <=> LargestDelta(v) <= v.max_delta
            /\ ~v.ok =>
                  /\ v.joint \in 0..(JointCount - 1)
                  /\ JointDelta(v, v.joint + 1) > v.max_delta
                  /\ \A i \in 1..v.joint : JointDelta(v, i) <= v.max_delta
                  /\ v.delta = JointDelta(v, v.joint + 1)

\* C13 witness: two joints exceed the bound, one by 5 and a later one by 10; the
\* first is reported
C13_Witness ==
    /\ pc = "validated"
    /\ \E k \in DOMAIN validations :
          LET v == validations[k] IN
          /\ ~v.ok
          /\ v.max_delta = 4
          /\ v.joint = 2
          /\ v.delta = 5
          /\ JointDelta(v, JointCount) = 10

(***************************************************************************)
(* C14.  The two-target run: at most two sends, the outbound target        *)
(* (reference with joint 5 offset by SMALL_MOVEMENT_OFFSET) first and the  *)
(* reference read at the start second; Success is reported only when both  *)
(* waits returned Settled.                                                 *)
(***************************************************************************)
BothSettled == waits = <<"Settled", "Settled">>

\* C14 as stated: a finished run reports Success iff both waits returned Settled
C14_SuccessIffBothSettle ==
    Ended => (result = "Success" <=> BothSettled)

\* C14: sends in the order outbound, return; Success implies both waits Settled
\* and two sends; both Settled implies Success unless the re-read that follows
\* the second wait fails (Error) or is interrupted (Interrupted)
C14_TwoSendsAndSuccess ==
    /\ Len(sent) <= 2
    /\ Count("send") = Len(sent)
    /\ sent # <<>> =>
          /\ Len(current_position) = JointCount
          /\ sent[1] = [current_position EXCEPT ![JointCount] = @ + SMALL_MOVEMENT_OFFSET]
          /\ \A k \in DOMAIN validations :
                validations[k].ok /\ validations[k].max_delta = MAX_JOINT_MOVEMENT
    /\ Len(sent) = 2 => sent[2] = current_position /\ waits[1] = "Settled"
    /\ result = "Success" =>
          /\ BothSettled
          /\ Len(sent) = 2
          /\ state # None
          /\ InTeardown \/ Ended
    /\ (BothSettled /\ (InTeardown \/ Ended)) =>
          /\ result \in {"Success", "Error", "Interrupted"}
          /\ state = None => result = "Error"
    /\ (Ended /\ ~BothSettled) => result # "Success"

\* C14 witness: the run ended in Success after sending the outbound target and
\* then the reference
C14_Witness ==
    /\ Ended
    /\ result = "Success"
    /\ sent = <<OutboundTarget, ReferencePosition>>
    /\ BothSettled

(***************************************************************************)
(* C15.  When every call returns and the clock advances, every run ends    *)
(* with a final result: the retry loop and the polling loop exit, and a    *)
(* failure raised during teardown does not keep the run from returning.    *)
(***************************************************************************)
C15_RunTerminates == <>(Ended /\ result # "running")

\* C15 witness: the polling loop left by timeout and send_pause raised in the
\* teardown, and the run still returned
C15_Witness ==
    /\ Ended
    /\ result # "running"
    /\ \E k \in DOMAIN waits : waits[k] = "TimedOut"
    /\ \E k \in DOMAIN calls : calls[k].op = "send_pause" /\ calls[k].res = "error"

(***************************************************************************)
(* C16.  A failed connect, a failed start of synchronization and a missing *)
(* initial telemetry sample each end the run without retry: the failed     *)
(* call is not repeated, nothing is sent, and the teardown runs.           *)
(***************************************************************************)
PreflightFailure(c) ==
    \/ c.op = "connect" /\ c.res = "error"
    \/ c.op = "send_start" /\ c.res \in {"false", "error"}

TeardownRan == Ended => Count("send_pause") = 1

\* C16: after a pre-flight failure only the teardown calls follow, the failed
\* step was attempted once, and no send was issued
C16_PreflightFailureTerminal ==
    /\ \A k \in DOMAIN calls :
          PreflightFailure(calls[k]) =>
             /\ \A j \in (k + 1)..Len(calls) : calls[j].op \in {"send_pause", "disconnect"}
             /\ InTeardown \/ Ended
             /\ k = 1 => Count("connect") = 1
             /\ calls[k].op = "send_start" => Count("send_start") = 1
             /\ sent = <<>> /\ Count("send") = 0
             /\ receives = 0
             /\ TeardownRan
    /\ result = "NoState" =>
          /\ state = None
          /\ receives = 1
          /\ sent = <<>> /\ Count("send") = 0
          /\ InTeardown \/ Ended
          /\ TeardownRan

\* C16 witness: send_start returned False; the run ended after one send_start,
\* no send, and one send_pause
C16_Witness ==
    /\ Ended
    /\ result = "StartFailed"
    /\ \E k \in DOMAIN calls : calls[k].op = "send_start" /\ calls[k].res = "false"
    /\ Count("send_start") = 1
    /\ Count("send_pause") = 1
    /\ sent = <<>>

(***************************************************************************)
(* C17.  After synchronization started, a telemetry read that yields no    *)
(* sample, in wait_for_move_completion or in the re-read after a settled   *)
(* movement, ends the run: no receive and no send follow, the result is    *)
(* not Success, and the teardown runs.                                     *)
(***************************************************************************)
\* the step in which a poll of the wait loop yields no sample
LostInWait == pc = "wait_recv" /\ waits' = Append(waits, "SessionLost")

\* the step in which the re-read after a settled movement yields no sample
LostInReread == pc = "reread" /\ state' = None

\* a read after the start of synchronization has yielded no sample
SampleLost ==
    /\ waits # <<>>
    /\ \/ LastWait = "SessionLost"
       \/ LastWait = "Settled" /\ state = None

\* C17: the step that loses the sample enters the teardown with a result other
\* than Success; from the teardown on nothing is received or sent
C17_NoSampleFatal ==
    /\ [][ /\ (LostInWait \/ LostInReread) =>
                /\ pc' = "pause"
                /\ result' \notin {"Success", "running"}
                /\ sent' = sent
           /\ (InTeardown \/ Ended) =>
                /\ receives' = receives
                /\ sent' = sent
                /\ result' = result
                /\ pc' \in {"disconnect", "done"} ]_vars
    /\ [](SampleLost =>
            /\ InTeardown \/ Ended
            /\ result \in {"Movement1Timeout", "Movement2Timeout", "Error"}
            /\ Len(sent) = Len(waits)
            /\ Count("send") = Len(sent)
            /\ TeardownRan)

\* C17 witness: the re-read after the first settled movement yielded no sample;
\* the run ended in Error after one send and one send_pause
C17_Witness ==
    /\ Ended
    /\ state = None
    /\ waits = <<"Settled">>
    /\ result = "Error"
    /\ Len(sent) = 1
    /\ Count("send_pause") = 1

(***************************************************************************)
(* C18.  The outcome of the wait tells a lost session from a timeout, and  *)
(* the run is aborted with that cause: a timeout is never reported for a   *)
(* lost session.  wait_for_move_completion returns False in both cases     *)
(* (lines 98 and 108) and lines 283 and 302 print "timeout" for both.      *)
(***************************************************************************)
ReportedTimeout == result \in {"Movement1Timeout", "Movement2Timeout"}

\* C18: a wait that ended because no sample arrived is not reported as a timeout
C18_CauseDistinguished ==
    LastWait = "SessionLost" => ~ReportedTimeout

(***************************************************************************)
(* C19.  Recipe setup, start of synchronization, receive and send are      *)
(* called only while the transport is connected; send is called only       *)
(* after a successful recipe setup, a successful start and a successful    *)
(* first telemetry read on the current connection, and never once the      *)
(* teardown has begun.                                                     *)
(***************************************************************************)
\* the statements that call, or lie between calls to, setup, start, receive and send
SessionCalls ==
    {"version", "retry_version", "output_setup", "input_setup", "start", "recv_ref",
     "pre_move_sleep", "send", "wait_recv", "wait_sleep", "reread", "between_sleep"}

\* call i was made on a session configured and started on the current connection
Synchronizing(i) ==
    \E s \in Ops("send_start") :
        /\ s < i
        /\ calls[s].res = "ok"
        /\ s > 1
        /\ calls[s - 1].op = "send_input_setup"
        /\ calls[s - 1].res = "ok"
        /\ \A j \in (s + 1)..(i - 1) :
              calls[j].op \notin {"connect", "disconnect", "send_pause"}

\* C19: session calls only while connected; send only while Synchronizing
C19_CallsOnlyInSessionState ==
    /\ pc \in SessionCalls => connected
    /\ pc \in SessionCalls => Count("send_pause") = 0
    /\ pc \in {"send", "wait_recv", "wait_sleep", "reread", "between_sleep"} =>
          /\ setp # None
          /\ Synchronizing(Len(calls) + 1)
          /\ receives >= 1
          /\ pc = "send" => state # None
    /\ \A i \in Ops("send") : Synchronizing(i)
    /\ \A i \in Ops("send"), j \in Ops("send_pause") : i < j
    /\ \A i \in Ops("send_start") :
          calls[i - 1].op = "send_input_setup" /\ calls[i - 1].res = "ok"
    /\ (InTeardown \/ Ended) => Count("send") = Len(sent)

\* C19 witness: the second target is about to be sent on a connection that was
\* reopened after a recipe conflict
C19_Witness ==
    /\ pc = "send"
    /\ move = 2
    /\ connected
    /\ Count("connect") = 2
    /\ Count("send") = 1

(***************************************************************************)
(* C20.  Both targets are validated before the first send: the outbound    *)
(* target against the reference and the return target against the          *)
(* outbound target.  A run in which a validation failed sends nothing.     *)
(***************************************************************************)
ValidationFailed == \E k \in DOMAIN validations : ~validations[k].ok

\* the movements have started or are about to start
MovementsStarted ==
    \/ pc \in {"pre_move_sleep", "send", "wait_recv", "wait_sleep", "reread", "between_sleep"}
    \/ sent # <<>>
    \/ Count("send") > 0

\* C20: no send before both validations passed; no send at all after a failed one
C20_BothValidatedBeforeFirstSend ==
    /\ MovementsStarted =>
          /\ Len(validations) = 2
          /\ validations[1].ok /\ validations[2].ok
          /\ validations[1].reference = current_position
          /\ validations[1].target = target_pos_1
          /\ validations[2].reference = target_pos_1
          /\ validations[2].target = target_pos_2
    /\ ValidationFailed =>
          /\ sent = <<>>
          /\ Count("send") = 0
          /\ result \in {"Validation1Failed", "Validation2Failed"}
          /\ InTeardown \/ Ended
    /\ result \in {"Validation1Failed", "Validation2Failed"} =>
          ValidationFailed /\ sent = <<>> /\ Count("send") = 0

\* C20 witness: a validation failed and the run ended without a send
C20_Witness ==
    /\ Ended
    /\ ValidationFailed
    /\ Count("send") = 0
    /\ Count("send_pause") = 1

====
